---- MODULE Spec2Model ----
(***************************************************************************)
(* Model of the flexible machine-data ingestion service (src/server.js,    *)
(* lines 1-656): the field extractor, the two rate limiters, the           *)
(* machine_data table, the metrics cache and the HTTP handlers; and of the *)
(* ingestion of the strict legacy service (src/server.js, lines 657-1094). *)
(*                                                                         *)
(* JSON values are written as the text of their JSON source: "null",       *)
(* "false", "0", "42", "{}" and, for strings, the text in single quotes    *)
(* ("'A'", "''").  "undefined" is the value of a property that is absent.  *)
(* Time is counted in whole seconds.                                       *)
(***************************************************************************)
EXTENDS Integers, Sequences, FiniteSets, TLC

VARIABLES now, store, seq, systemMetrics, machineHits, globalHits,
          req, info, err, res, admitted, apiLog, removed, startup, pending,
          calls, answers, running

vars == <<now, store, seq, systemMetrics, machineHits, globalHits,
          req, info, err, res, admitted, apiLog, removed, startup, pending,
          calls, answers, running>>

----------------------------------------------------------------------------
(* JSON values and JavaScript's view of them                               *)

Null == "null"

Undefined == "undefined"

\* the values a payload property takes in the extractor's specification
Values == {"null", "0", "''", "'A'", "'B'", "'not-a-date'", "'2025-01-01T00:00:00Z'"}

\* ToBoolean: the operands that `||` and `if (...)` treat as false
Falsy == {"undefined", "null", "false", "0", "''"}

Truthy(v) == v \notin Falsy

\* !isNaN(new Date(v).getTime()): numbers, booleans and null convert to a
\* number of milliseconds; a string must be a date string; an object is not
DateParses(v) == v \in {"null", "false", "true", "0", "42", "'2025-01-01T00:00:00Z'"}

\* new Date(v).toISOString() for the values that parse
toISOString(v) ==
  CASE v = "'2025-01-01T00:00:00Z'" -> "'2025-01-01T00:00:00.000Z'"
    [] v = "42" -> "'1970-01-01T00:00:00.042Z'"
    [] v = "true" -> "'1970-01-01T00:00:00.001Z'"
    [] OTHER -> "'1970-01-01T00:00:00.000Z'"

\* payload[k]: a property that is absent reads as undefined
Get(payload, k) == IF k \in DOMAIN payload THEN payload[k] ELSE Undefined

\* a || b || ... || dflt over the properties named by keys
RECURSIVE FirstTruthy(_, _, _)
FirstTruthy(payload, keys, dflt) ==
  IF keys = <<>> THEN dflt
  ELSE IF Truthy(Get(payload, Head(keys))) THEN Get(payload, Head(keys))
  ELSE FirstTruthy(payload, Tail(keys), dflt)

----------------------------------------------------------------------------
(* Field extractor                                                         *)

\* the list with its first two names exchanged
machineIdFields_swapped == <<"machine_id", "machineId", "deviceId", "device_id", "id", "serial", "name">>

machineIdFields == <<"machineId", "machine_id", "deviceId", "device_id", "id", "serial", "name">>

deviceTypeFields == <<"deviceType", "device_type", "type", "category">>

timestampFields == <<"timestamp", "time", "datetime", "created_at", "recorded_at">>

\* the properties that extractMachineInfo deletes from the copy of the payload
deletedFields == {"machineId", "machine_id", "deviceId", "device_id",
                  "deviceType", "device_type", "type", "category"}

Range(s) == {s[i] : i \in DOMAIN s}

\* every property name the extractor looks at, and one it does not
Keys == Range(machineIdFields) \cup Range(deviceTypeFields) \cup Range(timestampFields) \cup {"temp"}

\* a loop that gives up at the first candidate that does not parse
extractTimestamp_reject(payload, fields) ==
  LET held == {i \in DOMAIN fields : Truthy(Get(payload, fields[i]))}
      first == CHOOSE i \in held : \A j \in held : i <= j
  IN IF held = {} \/ ~DateParses(payload[fields[first]]) THEN Null
     ELSE toISOString(payload[fields[first]])

\* the for loop over timestampFields
RECURSIVE extractTimestamp(_, _)
extractTimestamp(payload, fields) ==
  IF fields = <<>> THEN Null
  ELSE IF Truthy(Get(payload, Head(fields))) /\ DateParses(Get(payload, Head(fields)))
       THEN toISOString(Get(payload, Head(fields)))
  ELSE extractTimestamp(payload, Tail(fields))

\* a copy that also loses the timestamp properties
extractedDataOf_noTimestamp(payload) ==
  [k \in (DOMAIN payload) \ (deletedFields \cup Range(timestampFields)) |-> payload[k]]

\* { ...payload } followed by the eight deletes
extractedDataOf(payload) == [k \in (DOMAIN payload) \ deletedFields |-> payload[k]]

extractMachineInfo(payload) ==
  [machineId |-> FirstTruthy(payload, machineIdFields, Null),
   deviceType |-> FirstTruthy(payload, deviceTypeFields, "'unknown'"),
   timestamp |-> extractTimestamp(payload, timestampFields),
   extractedData |-> extractedDataOf(payload)]

----------------------------------------------------------------------------
(* Time as SQLite and JavaScript write it                                  *)

DaySeconds == 24 * 60 * 60

\* CURRENT_TIMESTAMP and datetime(...): 'YYYY-MM-DD HH:MM:SS'
sqlDatetime(t) == [date |-> t \div DaySeconds, sep |-> " ", time |-> t % DaySeconds]

\* Date.prototype.toISOString: 'YYYY-MM-DDTHH:MM:SS.sssZ'
isoString(t) == [date |-> t \div DaySeconds, sep |-> "T", time |-> t % DaySeconds]

\* the byte that separates the date from the time: ' ' is 0x20, 'T' is 0x54
SepOrd(c) == IF c = " " THEN 32 ELSE 84

\* a < b as SQLite compares two TEXT values (BINARY collation, byte by byte);
\* the date and the time are fixed-width digit fields
TextLess(a, b) ==
  \/ a.date < b.date
  \/ a.date = b.date /\ SepOrd(a.sep) < SepOrd(b.sep)
  \/ a.date = b.date /\ a.sep = b.sep /\ a.time < b.time

TextLeq(a, b) == a = b \/ TextLess(a, b)

----------------------------------------------------------------------------
(* Rate limiters (express-rate-limit with its in-memory store)             *)
(*                                                                         *)
(* Each limiter keeps, per key, a count of hits and the time at which the  *)
(* key's window ends.  The first hit of a key opens a window of windowMs;  *)
(* every request is a hit, refused or not; a request is refused when the   *)
(* count of its key, the request included, exceeds max.                    *)

\* windowMs of machineRateLimiter, in seconds
machineWindow == 10

\* max of machineRateLimiter
machineMax == 1

\* windowMs of globalLimiter, in seconds
globalWindow == 60

\* max of globalLimiter; the code sets 100, the model scales it down
globalMax == 2

\* no client is hit more often than this within one window
MaxHits == globalMax + 1

\* a sliding window: every hit, refused or not, restarts the window
Increment_sliding(hits, key, window, t) ==
  IF key \in DOMAIN hits /\ hits[key].resetTime > t
    THEN [totalHits |-> hits[key].totalHits + 1, resetTime |-> t + window]
    ELSE [totalHits |-> 1, resetTime |-> t + window]

\* the entry of key in a limiter's store; a key without an entry or with an
\* expired one starts a new window at the hit
Increment(hits, key, window, t) ==
  IF key \in DOMAIN hits /\ hits[key].resetTime > t
    THEN [totalHits |-> hits[key].totalHits + 1, resetTime |-> hits[key].resetTime]
    ELSE [totalHits |-> 1, resetTime |-> t + window]

\* store.increment(key): the store after the hit
Hit(hits, key, window, t) ==
  [k \in (DOMAIN hits) \cup {key} |-> IF k = key THEN Increment(hits, key, window, t) ELSE hits[k]]

\* the store's periodic sweep: entries whose window is over are dropped
Expire(hits, t) == [k \in {c \in DOMAIN hits : hits[c].resetTime > t} |-> hits[k]]

\* whether a further hit fits under the cap on hits per window
CanHit(hits, key, t) ==
  ~(key \in DOMAIN hits /\ hits[key].resetTime > t /\ hits[key].totalHits >= MaxHits)

\* keyGenerator of machineRateLimiter
keyGenerator(r) ==
  FirstTruthy(r.body, <<"machineId", "machine_id", "deviceId", "device_id", "id", "serial">>, r.ip)

\* globalLimiter has no keyGenerator: the key is the caller's address
globalKey(r) == r.ip

machineLimitMessage ==
  [success |-> FALSE,
   error |-> "Rate limit exceeded. Maximum 1 request per 10 seconds per machine.",
   retryAfter |-> "10 seconds"]

globalLimitMessage ==
  [success |-> FALSE,
   error |-> "Global rate limit exceeded. Try again in a minute.",
   retryAfter |-> "60 seconds"]

----------------------------------------------------------------------------
(* Requests, responses and the machine_data table                          *)

EmptyBody == [k \in {} |-> Null]

NoInfo == [machineId |-> Null, deviceType |-> "none", timestamp |-> Null, extractedData |-> EmptyBody]

IPs == {"ip1", "ip2"}

Request(method, path, ip, body, query) ==
  [method |-> method, path |-> path, ip |-> ip, body |-> body, query |-> query]

Response(status, body) == [status |-> status, body |-> body]

\* a 500 that passes the storage engine's message on
databaseError_detail == Response(500, [success |-> FALSE, error |-> "SQLITE_ERROR: no such table: machine_data"])

\* the 500 of every handler whose storage call fails
databaseError == Response(500, [success |-> FALSE, error |-> "Database error occurred"])

\* the number that JSON.parse makes of 1e400
Infinity == "Infinity"

\* JSON.stringify of a value that is not an object with properties: a
\* number that is not finite is written as null
JSONstringifyValue(v) == [json |-> IF v = Infinity THEN Null ELSE v]

\* JSON.stringify of a parsed JSON object, and JSON.parse of that text
JSONstringify(v) == [json |-> [k \in DOMAIN v |-> JSONstringifyValue(v[k]).json]]

JSONparse(text) == text.json

\* a text that is not JSON
notJSON == [text |-> "{temp: 4"]

\* JSON.parse(text) throws a SyntaxError
SyntaxError(text) == "json" \notin DOMAIN text

\* the value a column of TEXT affinity holds for a bound parameter: a
\* string as it is, a number as its decimal text, true and false as 1 and 0
SqlText(v) ==
  CASE v = Null -> Null
    [] v = "42" -> "'42'"
    [] v = "true" -> "'1'"
    [] v = "{}" -> "'[object Object]'"
    [] OTHER -> v

\* the highest id the table has handed out: at most this many rows are ever inserted
MaxId == 3

Max(a, b) == IF a >= b THEN a ELSE b

RowIds(rows) == {rows[i].id : i \in DOMAIN rows}

MaxRowId(rows) == IF rows = <<>> THEN 0 ELSE CHOOSE m \in RowIds(rows) : \A n \in RowIds(rows) : n <= m

\* INTEGER PRIMARY KEY without AUTOINCREMENT: one more than the largest id in the table
NextId_rowid(sequence, rows) == MaxRowId(rows) + 1

\* INTEGER PRIMARY KEY AUTOINCREMENT: one more than the largest id ever
\* used, which sqlite_sequence remembers across deletes
NextId(sequence, rows) == Max(sequence, MaxRowId(rows)) + 1

\* the row that the INSERT of the POST handler writes
InsertedRow(id, r, inf, t) ==
  [id |-> id,
   machine_id |-> SqlText(inf.machineId),
   device_type |-> SqlText(inf.deviceType),
   timestamp |-> inf.timestamp,
   received_at |-> sqlDatetime(t),
   raw_payload |-> JSONstringify(r.body),
   extracted_data |-> JSONstringify(inf.extractedData),
   metadata |-> JSONstringify([source_ip |-> r.ip])]

\* systemMetrics after the insert callback's update
UpdatedMetrics(m, machineId, t) ==
  [totalMessages |-> m.totalMessages + 1,
   lastMessage |-> t,
   connectedDevices |-> IF Truthy(machineId) THEN m.connectedDevices \cup {machineId}
                        ELSE m.connectedDevices]

\* the body of the 201 response
Created(id, inf, t) ==
  [success |-> TRUE,
   message |-> "Data received and stored successfully",
   id |-> id,
   timestamp |-> isoString(t),
   extracted |-> [machineId |-> IF Truthy(inf.machineId) THEN inf.machineId ELSE "'not detected'",
                  deviceType |-> inf.deviceType,
                  timestamp |-> IF Truthy(inf.timestamp) THEN inf.timestamp ELSE "'not detected'",
                  dataFields |-> Cardinality(DOMAIN inf.extractedData)]]

\* JSON.stringify(req.body).length, counted in properties; the limit is 10 MB
payloadSize(body) == Cardinality(DOMAIN body)

\* a validation that insists on a machineId
validateBasicPayload_strict(r) ==
  IF ~Truthy(Get(r.body, "machineId"))
    THEN Response(400, [success |-> FALSE, error |-> "Missing required fields: machineId, timestamp, data"])
  ELSE Response(0, [success |-> TRUE, error |-> "next"])

\* a validation that lets the empty body through
validateBasicPayload_lenient(r) ==
  IF payloadSize(r.body) > 10 * 1024 * 1024
    THEN Response(413, [success |-> FALSE, error |-> "Payload too large. Maximum 10MB allowed."])
  ELSE Response(0, [success |-> TRUE, error |-> "next"])

\* validateBasicPayload: the response it sends, or "next"
validateBasicPayload(r) ==
  IF DOMAIN r.body = {}
    THEN Response(400, [success |-> FALSE, error |-> "Empty payload received. Send some data."])
  ELSE IF payloadSize(r.body) > 10 * 1024 * 1024
    THEN Response(413, [success |-> FALSE, error |-> "Payload too large. Maximum 10MB allowed."])
  ELSE Response(0, [success |-> TRUE, error |-> "next"])

----------------------------------------------------------------------------
(* State after construction: an empty database, empty limiter stores; the  *)
(* two startup queries have found the empty table                          *)

InitServer ==
  /\ now = 0
  /\ store = <<>>
  /\ seq = 0
  /\ systemMetrics = [totalMessages |-> 0, lastMessage |-> -1, connectedDevices |-> {}]
  /\ machineHits = EmptyBody
  /\ globalHits = EmptyBody
  /\ info = NoInfo
  /\ err = FALSE
  /\ res = Response(0, [success |-> TRUE, error |-> "none"])
  /\ admitted = EmptyBody
  /\ apiLog = <<>>
  /\ removed = {}
  /\ startup = [count |-> "done", devices |-> "done", countRow |-> 0, deviceRows |-> {}]
  /\ pending = {}
  /\ calls = {}
  /\ answers = <<>>
  /\ running = TRUE

Init == InitServer /\ req = Request("NONE", "/", "ip1", EmptyBody, EmptyBody)

\* the clock moves on by d seconds; the limiter stores drop what has expired
Tick(d) ==
  /\ now' = now + d
  /\ machineHits' = Expire(machineHits, now')
  /\ globalHits' = Expire(globalHits, now')
  /\ admitted' = [k \in {c \in DOMAIN admitted : admitted[c] + machineWindow > now'} |-> admitted[k]]
  /\ apiLog' = SelectSeq(apiLog, LAMBDA t : t + globalWindow > now')
  /\ UNCHANGED <<store, seq, systemMetrics, req, info, err, res, removed, startup, pending, calls, answers, running>>

\* app.use('/api/', globalLimiter): the hit is counted, then compared with max
GlobalAdmits(r) == Increment(globalHits, globalKey(r), globalWindow, now).totalHits <= globalMax

GlobalGate(r) ==
  /\ CanHit(globalHits, globalKey(r), now)
  /\ req' = r
  /\ globalHits' = Hit(globalHits, globalKey(r), globalWindow, now)
  /\ apiLog' = IF GlobalAdmits(r) THEN Append(apiLog, now) ELSE apiLog

GlobalRefuse ==
  /\ res' = Response(429, globalLimitMessage)
  /\ info' = NoInfo
  /\ err' = FALSE
  /\ UNCHANGED <<now, store, seq, systemMetrics, machineHits, admitted, removed, startup, pending>>

\* a limiter that lets a second request through
MachineAdmits_two(r) ==
  Increment(machineHits, keyGenerator(r), machineWindow, now).totalHits <= machineMax + 1

\* machineRateLimiter on the POST route
MachineAdmits(r) ==
  Increment(machineHits, keyGenerator(r), machineWindow, now).totalHits <= machineMax

\* POST /api/machine-data: globalLimiter, machineRateLimiter,
\* validateBasicPayload, then the handler with its insert callback
PostMachineData(ip, body, dbErr) ==
  LET r == Request("POST", "/api/machine-data", ip, body, EmptyBody)
      key == keyGenerator(r)
      valid == validateBasicPayload(r)
      inf == extractMachineInfo(body)
      id == NextId(seq, store)
  IN /\ GlobalGate(r)
     /\ IF ~GlobalAdmits(r) THEN GlobalRefuse
        ELSE /\ CanHit(machineHits, key, now)
             /\ machineHits' = Hit(machineHits, key, machineWindow, now)
             /\ UNCHANGED <<now, removed, startup, pending>>
             /\ IF ~MachineAdmits(r)
                  THEN /\ res' = Response(429, machineLimitMessage)
                       /\ info' = NoInfo
                       /\ err' = FALSE
                       /\ UNCHANGED <<store, seq, systemMetrics, admitted>>
                ELSE /\ admitted' = [k \in (DOMAIN admitted) \cup {key} |->
                                       IF k = key THEN now ELSE admitted[k]]
                     /\ IF valid.status # 0
                          THEN /\ res' = valid
                               /\ info' = NoInfo
                               /\ err' = FALSE
                               /\ UNCHANGED <<store, seq, systemMetrics>>
                        ELSE /\ info' = inf
                             /\ err' = dbErr
                             /\ dbErr \/ seq < MaxId
                             /\ IF dbErr
                                  THEN /\ res' = databaseError
                                       /\ UNCHANGED <<store, seq, systemMetrics>>
                                ELSE /\ store' = Append(store, InsertedRow(id, r, inf, now))
                                     /\ seq' = id
                                     /\ systemMetrics' = UpdatedMetrics(systemMetrics, inf.machineId, now)
                                     /\ res' = Response(201, Created(id, inf, now))

----------------------------------------------------------------------------
(* GET /api/machine-data and DELETE /api/cleanup                           *)

\* parseInt of the query strings the model sends
parseInt(text) ==
  CASE text = "0" -> 0
    [] text = "1" -> 1
    [] text = "2" -> 2
    [] text = "30" -> 30
    [] OTHER -> 100

\* new Date(text).getTime() in seconds, for the date strings the model sends
DateSeconds(text) ==
  CASE text = "'1970-01-01T12:00:00Z'" -> 12 * 60 * 60
    [] text = "'1970-01-02T00:00:00Z'" -> 24 * 60 * 60
    [] OTHER -> 0

\* destructuring defaults of the handlers
QueryLimit(q) == IF "limit" \in DOMAIN q THEN parseInt(q.limit) ELSE 100

QueryOffset(q) == IF "offset" \in DOMAIN q THEN parseInt(q.offset) ELSE 0

QueryDays(q) == IF "days" \in DOMAIN q THEN parseInt(q.days) ELSE 30

\* whereClause with its params: WHERE 1=1 AND machine_id = ? AND
\* device_type = ? AND received_at >= ? AND received_at <= ?
whereClause(row, q) ==
  /\ Truthy(Get(q, "machineId")) => row.machine_id = q.machineId
  /\ Truthy(Get(q, "deviceType")) => row.device_type = q.deviceType
  /\ Truthy(Get(q, "from")) => TextLeq(isoString(DateSeconds(q.from)), row.received_at)
  /\ Truthy(Get(q, "to")) => TextLeq(row.received_at, isoString(DateSeconds(q.to)))

Matching(rows, q) == SelectSeq(rows, LAMBDA row : whereClause(row, q))

\* ORDER BY received_at DESC: every arrangement of the rows in which no
\* row comes before one with a later received_at
OrderByReceivedAtDesc(rows) ==
  {s \in {[i \in DOMAIN rows |-> rows[p[i]]] : p \in Permutations(DOMAIN rows)} :
     \A i, j \in DOMAIN rows : i < j => ~TextLess(s[i].received_at, s[j].received_at)}

\* LIMIT ? OFFSET ?
LimitOffset(rows, limit, offset) ==
  SubSeq(rows, offset + 1, IF offset + limit < Len(rows) THEN offset + limit ELSE Len(rows))

\* rows.map(...) with the JSON columns parsed
processedRows(rows) ==
  [i \in DOMAIN rows |->
     [rows[i] EXCEPT !.raw_payload = JSONparse(@),
                     !.extracted_data = JSONparse(@),
                     !.metadata = JSONparse(@)]]

GetMachineData(ip, q, dbErr) ==
  LET r == Request("GET", "/api/machine-data", ip, EmptyBody, q)
      total == Len(Matching(store, q))
  IN /\ GlobalGate(r)
     /\ IF ~GlobalAdmits(r) THEN GlobalRefuse
        ELSE /\ info' = NoInfo
             /\ err' = dbErr
             /\ UNCHANGED <<now, store, seq, systemMetrics, machineHits, admitted, removed, startup, pending>>
             /\ IF dbErr THEN res' = databaseError
                ELSE \E sorted \in OrderByReceivedAtDesc(Matching(store, q)) :
                       res' = Response(200,
                         [success |-> TRUE,
                          data |-> processedRows(LimitOffset(sorted, QueryLimit(q), QueryOffset(q))),
                          pagination |-> [total |-> total,
                                          limit |-> QueryLimit(q),
                                          offset |-> QueryOffset(q),
                                          hasMore |-> QueryOffset(q) + QueryLimit(q) < total]])

\* a sweep that also takes the records received exactly N days ago
Expired_orEqual(row, days, t) == TextLeq(row.received_at, sqlDatetime(t - days * DaySeconds))

\* DELETE FROM machine_data WHERE received_at < datetime('now', '-N days')
Expired(row, days, t) == TextLess(row.received_at, sqlDatetime(t - days * DaySeconds))

Cleanup(ip, q, dbErr) ==
  LET r == Request("DELETE", "/api/cleanup", ip, EmptyBody, q)
      days == QueryDays(q)
      gone == SelectSeq(store, LAMBDA row : Expired(row, days, now))
  IN /\ GlobalGate(r)
     /\ IF ~GlobalAdmits(r) THEN GlobalRefuse
        ELSE /\ info' = NoInfo
             /\ err' = dbErr
             /\ UNCHANGED <<now, seq, systemMetrics, machineHits, admitted, startup, pending>>
             /\ IF dbErr
                  THEN /\ res' = databaseError
                       /\ UNCHANGED <<store, removed>>
                ELSE /\ store' = SelectSeq(store, LAMBDA row : ~Expired(row, days, now))
                     /\ removed' = removed \cup RowIds(gone)
                     /\ res' = Response(200, [success |-> TRUE, deletedRecords |-> Len(gone)])

----------------------------------------------------------------------------
(* GET /api/machine-data/:machineId and GET /api/stats                     *)

\* a request to a route with a parameter in its path
ParamRequest(method, path, ip, params, query) ==
  [method |-> method, path |-> path, ip |-> ip, body |-> EmptyBody, query |-> query, params |-> params]

\* destructuring default of the per-machine handler
MachineLimit(q) == IF "limit" \in DOMAIN q THEN parseInt(q.limit) ELSE 50

\* the 404 of the per-machine handler
noDataFound(machineId) ==
  Response(404, [success |-> FALSE,
                 error |-> CASE machineId = "'A'" -> "No data found for machine: A"
                             [] machineId = "'B'" -> "No data found for machine: B"
                             [] machineId = "'C'" -> "No data found for machine: C"
                             [] OTHER -> "No data found for machine: "])

\* SELECT ... WHERE machine_id = ? ORDER BY received_at DESC LIMIT ?
GetMachineById(ip, machineId, q, dbErr) ==
  LET r == ParamRequest("GET", "/api/machine-data/:machineId", ip, [machineId |-> machineId], q)
      rows == SelectSeq(store, LAMBDA row : row.machine_id = machineId)
  IN /\ GlobalGate(r)
     /\ IF ~GlobalAdmits(r) THEN GlobalRefuse
        ELSE /\ info' = NoInfo
             /\ err' = dbErr
             /\ UNCHANGED <<now, store, seq, systemMetrics, machineHits, admitted, removed, startup, pending>>
             /\ IF dbErr THEN res' = databaseError
                ELSE \E sorted \in OrderByReceivedAtDesc(rows) :
                       LET page == processedRows(LimitOffset(sorted, MachineLimit(q), 0))
                       IN res' = IF Len(page) = 0 THEN noDataFound(machineId)
                                 ELSE Response(200, [success |-> TRUE,
                                                     machineId |-> machineId,
                                                     recordCount |-> Len(page),
                                                     data |-> page])

\* every arrangement of a finite set in a sequence
Arrangements(S) ==
  {f \in [1..Cardinality(S) -> S] : \A i, j \in 1..Cardinality(S) : f[i] = f[j] => i = j}

\* machineStats.slice(0, n); the code takes 10, the model scales it down
topMachinesShown == 2

\* the groups without the WHERE clause: a group for the records without id
machineCounts_withNull(rows) ==
  {[machine_id |-> m,
    message_count |-> Cardinality({i \in DOMAIN rows : rows[i].machine_id = m})] :
     m \in {rows[i].machine_id : i \in DOMAIN rows}}

\* SELECT machine_id, COUNT(*) as message_count ... WHERE machine_id IS NOT
\* NULL GROUP BY machine_id
machineCounts(rows) ==
  {[machine_id |-> m,
    message_count |-> Cardinality({i \in DOMAIN rows : rows[i].machine_id = m})] :
     m \in {rows[i].machine_id : i \in DOMAIN rows} \ {Null}}

\* ORDER BY message_count DESC: every arrangement of the groups in which
\* no group comes before one with a larger count
OrderByMessageCountDesc(groups) ==
  {s \in Arrangements(groups) :
     \A i, j \in DOMAIN s : i < j => s[i].message_count >= s[j].message_count}

\* Array.prototype.slice(0, n)
slice(s, n) == SubSeq(s, 1, IF n < Len(s) THEN n ELSE Len(s))

\* received_at > datetime('now', '-24 hours')
Recent(row, t) == TextLess(sqlDatetime(t - DaySeconds), row.received_at)

\* the five statistics queries and the response built from them
GetStats(ip, dbErr) ==
  LET r == Request("GET", "/api/stats", ip, EmptyBody, EmptyBody)
  IN /\ GlobalGate(r)
     /\ IF ~GlobalAdmits(r) THEN GlobalRefuse
        ELSE /\ info' = NoInfo
             /\ err' = dbErr
             /\ UNCHANGED <<now, store, seq, systemMetrics, machineHits, admitted, removed, startup, pending>>
             /\ IF dbErr THEN res' = databaseError
                ELSE \E machineStats \in OrderByMessageCountDesc(machineCounts(store)),
                        deviceTypes \in Arrangements({store[i].device_type : i \in DOMAIN store}) :
                       res' = Response(200,
                         [success |-> TRUE,
                          statistics |->
                            [totalMessages |-> Len(store),
                             uniqueMachines |-> Cardinality({store[i].machine_id : i \in DOMAIN store} \ {Null}),
                             deviceTypes |-> deviceTypes,
                             recentActivity24h |-> Len(SelectSeq(store, LAMBDA row : Recent(row, now))),
                             lastMessage |-> systemMetrics.lastMessage,
                             topMachines |-> slice(machineStats, topMachinesShown)]])

----------------------------------------------------------------------------
(* The service: ingestion, list queries, retention sweeps, and the clock   *)

\* the clock advances by twelve hours at most this many times
MaxHalfDays == 1

HalfDay == 12 * 60 * 60

TickHalfDay == now \div HalfDay < MaxHalfDays /\ Tick(HalfDay)

Bodies ==
  {[machineId |-> "'A'", machine_id |-> "'B'", deviceType |-> "'press'",
    timestamp |-> "'not-a-date'", time |-> "'2025-01-01T00:00:00Z'", temp |-> "42"],
   [name |-> "'B'", temp |-> "0"],
   [recorded_at |-> "'not-a-date'", temp |-> "42"],
   EmptyBody}

Queries ==
  {EmptyBody,
   [machineId |-> "'A'"],
   [deviceType |-> "'unknown'"],
   [from |-> "'1970-01-01T12:00:00Z'"],
   [to |-> "'1970-01-01T12:00:00Z'"],
   [machineId |-> "'B'", from |-> "'1970-01-01T12:00:00Z'", to |-> "'1970-01-02T00:00:00Z'"]}

CleanupQueries == {EmptyBody, [days |-> "0"]}

Post ==
  /\ \E body \in Bodies, dbErr \in BOOLEAN : PostMachineData("ip1", body, dbErr)
  /\ UNCHANGED <<calls, answers, running>>

List ==
  /\ \E q \in Queries, dbErr \in BOOLEAN : GetMachineData("ip1", q, dbErr)
  /\ UNCHANGED <<calls, answers, running>>

Sweep ==
  /\ \E q \in CleanupQueries, dbErr \in BOOLEAN : Cleanup("ip1", q, dbErr)
  /\ UNCHANGED <<calls, answers, running>>

Next == TickHalfDay \/ Post \/ List \/ Sweep

Spec == Init /\ [][Next]_vars

----------------------------------------------------------------------------
(* The admission gate: two callers within one minute                       *)

\* the clock advances in steps of five seconds up to this time
MaxSeconds == 10

TickSeconds == now + 5 <= MaxSeconds /\ Tick(5)

GateBodies == {[machineId |-> "'A'", temp |-> "42"], EmptyBody}

PostGate ==
  /\ \E ip \in IPs, body \in GateBodies, dbErr \in BOOLEAN : PostMachineData(ip, body, dbErr)
  /\ UNCHANGED <<calls, answers, running>>

ListGate ==
  /\ \E ip \in IPs : GetMachineData(ip, EmptyBody, FALSE)
  /\ UNCHANGED <<calls, answers, running>>

NextGate == TickSeconds \/ PostGate \/ ListGate

SpecGate == Init /\ [][NextGate]_vars

----------------------------------------------------------------------------
(* The field extractor on its own: one call on each object payload of at   *)
(* most MaxKeys properties                                                 *)

MaxKeys == 2

Payloads == UNION {[S -> Values] : S \in {T \in SUBSET Keys : Cardinality(T) <= MaxKeys}}

InitExtract ==
  /\ InitServer
  /\ \E payload \in Payloads : req = Request("POST", "/api/machine-data", "ip1", payload, EmptyBody)

ExtractCall ==
  /\ info = NoInfo
  /\ info' = extractMachineInfo(req.body)
  /\ UNCHANGED <<now, store, seq, systemMetrics, machineHits, globalHits,
                 req, err, res, admitted, apiLog, removed, startup, pending, calls, answers, running>>

SpecExtract == InitExtract /\ [][ExtractCall]_vars

----------------------------------------------------------------------------
(* Reading the table: pages of the list, one machine's records and the     *)
(* statistics, asked by a second caller while a first one ingests          *)

QueryBodies ==
  {[machineId |-> "'A'", temp |-> "42"],
   [name |-> "'A'", temp |-> "0"],
   [machineId |-> "'B'"]}

PageQueries ==
  {[limit |-> "1", offset |-> "0"],
   [limit |-> "1", offset |-> "1"],
   [limit |-> "2", offset |-> "0"],
   [limit |-> "2", offset |-> "2"],
   [machineId |-> "'A'", limit |-> "1", offset |-> "0"],
   [machineId |-> "'A'", limit |-> "1", offset |-> "1"]}

MachineQueries == {EmptyBody, [limit |-> "0"], [limit |-> "1"]}

PostQuery ==
  /\ \E body \in QueryBodies : PostMachineData("ip1", body, FALSE)
  /\ UNCHANGED <<calls, answers, running>>

ListPage ==
  /\ \E q \in PageQueries, dbErr \in BOOLEAN : GetMachineData("ip2", q, dbErr)
  /\ UNCHANGED <<calls, answers, running>>

ByMachine ==
  /\ \E machineId \in {"'A'", "'C'"}, q \in MachineQueries, dbErr \in BOOLEAN :
       GetMachineById("ip2", machineId, q, dbErr)
  /\ UNCHANGED <<calls, answers, running>>

NextQuery == TickHalfDay \/ PostQuery \/ ListPage \/ ByMachine

SpecQuery == Init /\ [][NextQuery]_vars

----------------------------------------------------------------------------
(* The statistics of a table: the service is started on a database that   *)
(* an earlier run has filled, and is asked for its statistics             *)

\* the largest table a run starts with
MaxRows == 3

\* the tables an earlier run leaves behind: one record a minute, each the
\* row that the POST handler writes for one of the bodies
TablesOf(bodies) ==
  UNION {{[i \in 1..n |->
             InsertedRow(i, Request("POST", "/api/machine-data", "ip1", f[i], EmptyBody),
                         extractMachineInfo(f[i]), (i - 1) * globalWindow)] :
            f \in [1..n -> bodies]} : n \in 0..MaxRows}

\* the service started on a table, once its two startup queries have
\* answered: the count of the records and their distinct machine ids
Restarted(table) ==
  /\ now = MaxRows * globalWindow
  /\ store = table
  /\ seq = Len(table)
  /\ systemMetrics = [totalMessages |-> Len(table),
                      lastMessage |-> -1,
                      connectedDevices |-> {table[i].machine_id : i \in DOMAIN table} \ {Null}]
  /\ machineHits = EmptyBody
  /\ globalHits = EmptyBody
  /\ req = Request("NONE", "/", "ip1", EmptyBody, EmptyBody)
  /\ info = NoInfo
  /\ err = FALSE
  /\ res = Response(0, [success |-> TRUE, error |-> "none"])
  /\ admitted = EmptyBody
  /\ apiLog = <<>>
  /\ removed = {}
  /\ startup = [count |-> "done", devices |-> "done", countRow |-> 0, deviceRows |-> {}]
  /\ pending = {}
  /\ calls = {}
  /\ answers = <<>>
  /\ running = TRUE

StatsBodies ==
  {[machineId |-> "'A'", temp |-> "42"],
   [name |-> "'A'", temp |-> "0"],
   [machineId |-> "'B'"],
   [machineId |-> "'C'"],
   [temp |-> "42"]}

InitStats == \E table \in TablesOf(StatsBodies) : Restarted(table)

Stats ==
  /\ \E dbErr \in BOOLEAN : GetStats("ip1", dbErr)
  /\ UNCHANGED <<calls, answers, running>>

SpecStats == InitStats /\ [][Stats]_vars

----------------------------------------------------------------------------
(* Retention: records of different ages and sweeps with different limits;  *)
(* the clock advances by one day or by forty                               *)

\* the clock advances at most this many times
MaxDayTicks == 2

\* the number of advances that led to the time t
DayTicks(t) == t \div (40 * DaySeconds) + (t % (40 * DaySeconds)) \div DaySeconds

TickDays == \E d \in {1, 40} : DayTicks(now) < MaxDayTicks /\ Tick(d * DaySeconds)

RetentionBodies == {[machineId |-> "'A'", temp |-> "42"], [temp |-> "42"]}

RetentionQueries == {EmptyBody, [days |-> "0"], [days |-> "1"]}

PostRetention ==
  /\ \E body \in RetentionBodies : PostMachineData("ip1", body, FALSE)
  /\ UNCHANGED <<calls, answers, running>>

SweepRetention ==
  /\ \E q \in RetentionQueries, dbErr \in BOOLEAN : Cleanup("ip1", q, dbErr)
  /\ UNCHANGED <<calls, answers, running>>

NextRetention == TickDays \/ PostRetention \/ SweepRetention

SpecRetention == Init /\ [][NextRetention]_vars

----------------------------------------------------------------------------
(* Callbacks.  db.get, db.all and db.run hand the statement to the         *)
(* database and return; the statement is carried out later and its         *)
(* callback is called later still, each between other work of the process. *)
(* The two startup queries are not serialized with the statements of the   *)
(* requests, and statements finish in no fixed order.                      *)

\* the service as it is constructed on an empty database: both startup
\* queries are queued and the metrics hold their initial values
InitStarting ==
  /\ now = 0
  /\ store = <<>>
  /\ seq = 0
  /\ systemMetrics = [totalMessages |-> 0, lastMessage |-> -1, connectedDevices |-> {}]
  /\ machineHits = EmptyBody
  /\ globalHits = EmptyBody
  /\ req = Request("NONE", "/", "ip1", EmptyBody, EmptyBody)
  /\ info = NoInfo
  /\ err = FALSE
  /\ res = Response(0, [success |-> TRUE, error |-> "none"])
  /\ admitted = EmptyBody
  /\ apiLog = <<>>
  /\ removed = {}
  /\ startup = [count |-> "queued", devices |-> "queued", countRow |-> 0, deviceRows |-> {}]
  /\ pending = {}
  /\ calls = {}
  /\ answers = <<>>
  /\ running = TRUE

\* SELECT COUNT(*) as count FROM machine_data is carried out
StartupCountQuery(dbErr) ==
  /\ startup.count = "queued"
  /\ startup' = [startup EXCEPT !.count = IF dbErr THEN "err" ELSE "row",
                                !.countRow = IF dbErr THEN 0 ELSE Len(store)]
  /\ UNCHANGED <<now, store, seq, systemMetrics, machineHits, globalHits,
                 req, info, err, res, admitted, apiLog, removed, pending, calls, answers, running>>

\* its callback: if (!err) systemMetrics.totalMessages = row.count
StartupCountCallback ==
  /\ startup.count \in {"row", "err"}
  /\ startup' = [startup EXCEPT !.count = IF @ = "row" THEN "done" ELSE "failed"]
  /\ systemMetrics' = IF startup.count = "row"
                        THEN [systemMetrics EXCEPT !.totalMessages = startup.countRow]
                      ELSE systemMetrics
  /\ UNCHANGED <<now, store, seq, machineHits, globalHits,
                 req, info, err, res, admitted, apiLog, removed, pending, calls, answers, running>>

\* SELECT DISTINCT machine_id FROM machine_data WHERE machine_id IS NOT NULL
\* is carried out
StartupDevicesQuery(dbErr) ==
  /\ startup.devices = "queued"
  /\ startup' = [startup EXCEPT !.devices = IF dbErr THEN "err" ELSE "row",
                                !.deviceRows = IF dbErr THEN {}
                                               ELSE {store[i].machine_id : i \in DOMAIN store} \ {Null}]
  /\ UNCHANGED <<now, store, seq, systemMetrics, machineHits, globalHits,
                 req, info, err, res, admitted, apiLog, removed, pending, calls, answers, running>>

\* its callback: if (!err) systemMetrics.connectedDevices = new Set(...)
StartupDevicesCallback ==
  /\ startup.devices \in {"row", "err"}
  /\ startup' = [startup EXCEPT !.devices = IF @ = "row" THEN "done" ELSE "failed"]
  /\ systemMetrics' = IF startup.devices = "row"
                        THEN [systemMetrics EXCEPT !.connectedDevices = startup.deviceRows]
                      ELSE systemMetrics
  /\ UNCHANGED <<now, store, seq, machineHits, globalHits,
                 req, info, err, res, admitted, apiLog, removed, pending, calls, answers, running>>

\* POST /api/machine-data up to the INSERT: the limiters and the validation
\* answer at once; an admitted, valid request has its INSERT carried out
\* and its callback left to be called
PostInsert(ip, body, dbErr) ==
  LET r == Request("POST", "/api/machine-data", ip, body, EmptyBody)
      key == keyGenerator(r)
      valid == validateBasicPayload(r)
      inf == extractMachineInfo(body)
      id == NextId(seq, store)
  IN /\ GlobalGate(r)
     /\ UNCHANGED startup
     /\ IF ~GlobalAdmits(r) THEN GlobalRefuse /\ UNCHANGED pending
        ELSE /\ CanHit(machineHits, key, now)
             /\ machineHits' = Hit(machineHits, key, machineWindow, now)
             /\ UNCHANGED <<now, removed, systemMetrics>>
             /\ IF ~MachineAdmits(r)
                  THEN /\ res' = Response(429, machineLimitMessage)
                       /\ info' = NoInfo
                       /\ err' = FALSE
                       /\ UNCHANGED <<store, seq, admitted, pending>>
                ELSE /\ admitted' = [k \in (DOMAIN admitted) \cup {key} |->
                                       IF k = key THEN now ELSE admitted[k]]
                     /\ IF valid.status # 0
                          THEN /\ res' = valid
                               /\ info' = NoInfo
                               /\ err' = FALSE
                               /\ UNCHANGED <<store, seq, pending>>
                        ELSE /\ dbErr \/ seq < MaxId
                             /\ UNCHANGED <<info, err, res>>
                             /\ pending' = pending \cup
                                  {[req |-> r, info |-> inf, err |-> dbErr,
                                    lastID |-> IF dbErr THEN 0 ELSE id]}
                             /\ IF dbErr THEN UNCHANGED <<store, seq>>
                                ELSE /\ store' = Append(store, InsertedRow(id, r, inf, now))
                                     /\ seq' = id

\* the callback of db.run(insertSQL, ...): the 500, or the update of the
\* metrics and the 201
InsertCallback ==
  \E p \in pending :
    /\ pending' = pending \ {p}
    /\ req' = p.req
    /\ info' = p.info
    /\ err' = p.err
    /\ IF p.err
         THEN /\ res' = databaseError
              /\ UNCHANGED systemMetrics
       ELSE /\ systemMetrics' = UpdatedMetrics(systemMetrics, p.info.machineId, now)
            /\ res' = Response(201, Created(p.lastID, p.info, now))
    /\ UNCHANGED <<now, store, seq, machineHits, globalHits, admitted, apiLog, removed, startup>>

\* the clock advances second by second up to this time
MaxClock == 1

TickSecond == now < MaxClock /\ Tick(1)

AsyncBodies == {[machineId |-> "'A'", temp |-> "42"], [temp |-> "42"]}

StartupStep ==
  \/ \E dbErr \in BOOLEAN : StartupCountQuery(dbErr)
  \/ StartupCountCallback
  \/ StartupDevicesQuery(FALSE)
  \/ StartupDevicesCallback

PostAsync ==
  /\ \E body \in AsyncBodies, dbErr \in BOOLEAN : PostInsert("ip1", body, dbErr)
  /\ UNCHANGED <<calls, answers, running>>

SweepAsync ==
  /\ Cleanup("ip2", [days |-> "0"], FALSE)
  /\ UNCHANGED <<calls, answers, running>>

\* one of the insert callbacks is called
InsertAsync == InsertCallback /\ UNCHANGED <<calls, answers, running>>

NextAsync == StartupStep \/ PostAsync \/ InsertAsync \/ SweepAsync \/ TickSecond

SpecAsync == InitStarting /\ [][NextAsync]_vars

----------------------------------------------------------------------------
(* The strict legacy service (src/server.js, lines 657-1094): the payload  *)
(* must name machineId, timestamp and data; the table has a data column    *)

\* typeof v === 'object'
typeofObject(v) == v \in {"null", "{}", "[]"}

\* keyGenerator of the strict machineRateLimiter: req.body?.machineId || req.ip
keyGeneratorStrict(r) == FirstTruthy(r.body, <<"machineId">>, r.ip)

\* a validation that takes any timestamp
validateMachineData_anyTimestamp(r) ==
  IF \/ ~Truthy(Get(r.body, "machineId"))
     \/ ~Truthy(Get(r.body, "timestamp"))
     \/ ~Truthy(Get(r.body, "data"))
    THEN Response(400, [success |-> FALSE,
                        error |-> "Missing required fields: machineId, timestamp, data",
                        receivedFields |-> DOMAIN r.body])
  ELSE IF ~typeofObject(r.body.data)
    THEN Response(400, [success |-> FALSE, error |-> "Data field must be an object"])
  ELSE Response(0, [success |-> TRUE, error |-> "next"])

\* validateMachineData: the response it sends, or "next"
validateMachineData(r) ==
  IF \/ ~Truthy(Get(r.body, "machineId"))
     \/ ~Truthy(Get(r.body, "timestamp"))
     \/ ~Truthy(Get(r.body, "data"))
    THEN Response(400, [success |-> FALSE,
                        error |-> "Missing required fields: machineId, timestamp, data",
                        receivedFields |-> DOMAIN r.body])
  ELSE IF ~DateParses(r.body.timestamp)
    THEN Response(400, [success |-> FALSE,
                        error |-> "Invalid timestamp format. Use ISO 8601 format."])
  ELSE IF ~typeofObject(r.body.data)
    THEN Response(400, [success |-> FALSE, error |-> "Data field must be an object"])
  ELSE Response(0, [success |-> TRUE, error |-> "next"])

\* the row that the INSERT of the strict POST handler writes
InsertedRowStrict(id, r, t) ==
  [id |-> id,
   machine_id |-> SqlText(r.body.machineId),
   device_type |-> IF "deviceType" \in DOMAIN r.body THEN SqlText(r.body.deviceType) ELSE "'unknown'",
   timestamp |-> toISOString(r.body.timestamp),
   received_at |-> sqlDatetime(t),
   data |-> JSONstringifyValue(r.body.data),
   metadata |-> JSONstringifyValue(IF "metadata" \in DOMAIN r.body THEN r.body.metadata ELSE "{}")]

\* the strict POST /api/machine-data: globalLimiter, machineRateLimiter,
\* validateMachineData, then the handler with its insert callback
PostStrict(ip, body, dbErr) ==
  LET r == Request("POST", "/api/machine-data", ip, body, EmptyBody)
      key == keyGeneratorStrict(r)
      valid == validateMachineData(r)
      id == NextId(seq, store)
  IN /\ GlobalGate(r)
     /\ IF ~GlobalAdmits(r) THEN GlobalRefuse
        ELSE /\ CanHit(machineHits, key, now)
             /\ machineHits' = Hit(machineHits, key, machineWindow, now)
             /\ info' = NoInfo
             /\ UNCHANGED <<now, removed, startup, pending>>
             /\ IF Increment(machineHits, key, machineWindow, now).totalHits > machineMax
                  THEN /\ res' = Response(429, machineLimitMessage)
                       /\ err' = FALSE
                       /\ UNCHANGED <<store, seq, systemMetrics, admitted>>
                ELSE /\ admitted' = [k \in (DOMAIN admitted) \cup {key} |->
                                       IF k = key THEN now ELSE admitted[k]]
                     /\ IF valid.status # 0
                          THEN /\ res' = valid
                               /\ err' = FALSE
                               /\ UNCHANGED <<store, seq, systemMetrics>>
                        ELSE /\ err' = dbErr
                             /\ dbErr \/ seq < MaxId
                             /\ IF dbErr
                                  THEN /\ res' = databaseError
                                       /\ UNCHANGED <<store, seq, systemMetrics>>
                                ELSE /\ store' = Append(store, InsertedRowStrict(id, r, now))
                                     /\ seq' = id
                                     /\ systemMetrics' =
                                          [totalMessages |-> systemMetrics.totalMessages + 1,
                                           lastMessage |-> now,
                                           connectedDevices |->
                                             systemMetrics.connectedDevices \cup {body.machineId}]
                                     /\ res' = Response(201,
                                          [success |-> TRUE,
                                           message |-> "Data received and stored",
                                           id |-> id,
                                           timestamp |-> isoString(now)])

\* the payloads of the strict service: each of machineId, timestamp and
\* data absent or with one of these values
StrictPayloads ==
  UNION {{f \in [S -> {"''", "'A'", "0", "'not-a-date'", "'2025-01-01T00:00:00Z'", "{}", "[]"}] :
            /\ "machineId" \in S => f.machineId \in {"''", "'A'"}
            /\ "timestamp" \in S => f.timestamp \in {"0", "'not-a-date'", "'2025-01-01T00:00:00Z'"}
            /\ "data" \in S => f.data \in {"{}", "[]", "'A'"}} :
           S \in SUBSET {"machineId", "timestamp", "data"}}

PostStrictData ==
  /\ \E body \in StrictPayloads, dbErr \in BOOLEAN : PostStrict("ip1", body, dbErr)
  /\ UNCHANGED <<calls, answers, running>>

NextStrict == TickHalfDay \/ PostStrictData

SpecStrict == Init /\ [][NextStrict]_vars

----------------------------------------------------------------------------
(* Requests in flight: a handler makes its storage call and returns; the   *)
(* callback of the call answers the request later, and the statements of   *)
(* other requests are carried out in between.  calls holds the storage     *)
(* calls whose callback has not been called, answers counts the responses  *)
(* sent to each request that reached its handler, and running is false     *)
(* once the process has ended                                               *)

\* at most this many requests reach a handler
MaxRequests == 2

\* a storage call of the request with number id: err, and row (or `this`)
\* and rows, are what its callback will be called with
Call(id, route, step, r, e, row, rows) ==
  [id |-> id, route |-> route, step |-> step, req |-> r, err |-> e, row |-> row, rows |-> rows]

\* the handler of a request has made the storage call c and returned
Called(c) ==
  /\ calls' = calls \cup {c}
  /\ answers' = Append(answers, 0)
  /\ UNCHANGED <<info, err, res>>

\* the callback of c sends a response: res.json(...) or res.status(...).json(...)
Answered(c, response) ==
  /\ calls' = calls \ {c}
  /\ answers' = [answers EXCEPT ![c.id] = @ + 1]
  /\ req' = c.req
  /\ info' = NoInfo
  /\ err' = c.err
  /\ res' = response
  /\ UNCHANGED <<now, store, seq, systemMetrics, machineHits, globalHits,
                 admitted, apiLog, removed, startup, pending, running>>

\* rows.map(row => ({... JSON.parse(row.raw_payload) ...})) throws
mapThrows(rows) ==
  \E i \in DOMAIN rows : \/ SyntaxError(rows[i].raw_payload)
                         \/ SyntaxError(rows[i].extracted_data)
                         \/ SyntaxError(rows[i].metadata)

\* an exception thrown in a storage callback: no try or catch is around
\* it, no middleware is on the stack, and no 'uncaughtException' listener
\* is registered, so the process ends; nothing is sent to the request of c
uncaughtException(c) ==
  /\ calls' = calls \ {c}
  /\ running' = FALSE
  /\ UNCHANGED <<now, store, seq, systemMetrics, machineHits, globalHits, req, info, err, res,
                 admitted, apiLog, removed, startup, pending, answers>>

\* GET /api/machine-data up to db.get(countSQL, ...): the count is taken
ListStart(ip, q, dbErr) ==
  LET r == Request("GET", "/api/machine-data", ip, EmptyBody, q)
  IN /\ running
     /\ Len(answers) < MaxRequests
     /\ GlobalGate(r)
     /\ UNCHANGED running
     /\ IF ~GlobalAdmits(r) THEN GlobalRefuse /\ UNCHANGED <<calls, answers>>
        ELSE /\ Called(Call(Len(answers) + 1, "list", "count", r, dbErr,
                            [total |-> IF dbErr THEN 0 ELSE Len(Matching(store, q))], <<>>))
             /\ UNCHANGED <<now, store, seq, systemMetrics, machineHits, admitted,
                            removed, startup, pending>>

\* the callback of the count: the 500, or db.all(dataSQL, ...), whose page
\* is read from the table as it is now
ListCounted(c, dbErr) ==
  LET q == c.req.query
  IN /\ running
     /\ c.route = "list" /\ c.step = "count"
     /\ IF c.err THEN ~dbErr /\ Answered(c, databaseError)
        ELSE /\ \E sorted \in OrderByReceivedAtDesc(Matching(store, q)) :
                  calls' = (calls \ {c}) \cup
                    {[c EXCEPT !.step = "data",
                               !.err = dbErr,
                               !.rows = IF dbErr THEN <<>>
                                        ELSE LimitOffset(sorted, QueryLimit(q), QueryOffset(q))]}
             /\ UNCHANGED <<now, store, seq, systemMetrics, machineHits, globalHits, req, info,
                            err, res, admitted, apiLog, removed, startup, pending, answers, running>>

\* the callback of the data query: the 500, or the rows with their JSON
\* columns parsed and the count that the first query gave
ListRead(c) ==
  LET q == c.req.query
  IN /\ running
     /\ c.route = "list" /\ c.step = "data"
     /\ IF c.err THEN Answered(c, databaseError)
        ELSE IF mapThrows(c.rows) THEN uncaughtException(c)
        ELSE Answered(c, Response(200,
               [success |-> TRUE,
                data |-> processedRows(c.rows),
                pagination |-> [total |-> c.row.total,
                                limit |-> QueryLimit(q),
                                offset |-> QueryOffset(q),
                                hasMore |-> QueryOffset(q) + QueryLimit(q) < c.row.total]]))

\* GET /api/machine-data/:machineId up to db.all(sql, ...)
MachineStart(ip, machineId, q, dbErr) ==
  LET r == ParamRequest("GET", "/api/machine-data/:machineId", ip, [machineId |-> machineId], q)
      rows == SelectSeq(store, LAMBDA row : row.machine_id = machineId)
  IN /\ running
     /\ Len(answers) < MaxRequests
     /\ GlobalGate(r)
     /\ UNCHANGED running
     /\ IF ~GlobalAdmits(r) THEN GlobalRefuse /\ UNCHANGED <<calls, answers>>
        ELSE /\ \E sorted \in OrderByReceivedAtDesc(rows) :
                  Called(Call(Len(answers) + 1, "machine", "data", r, dbErr, [total |-> 0],
                              IF dbErr THEN <<>> ELSE LimitOffset(sorted, MachineLimit(q), 0)))
             /\ UNCHANGED <<now, store, seq, systemMetrics, machineHits, admitted,
                            removed, startup, pending>>

\* its callback: the 500, the 404, or the rows with their JSON columns parsed
MachineRead(c) ==
  /\ running
  /\ c.route = "machine"
  /\ IF c.err THEN Answered(c, databaseError)
     ELSE IF Len(c.rows) = 0 THEN Answered(c, noDataFound(c.req.params.machineId))
     ELSE IF mapThrows(c.rows) THEN uncaughtException(c)
     ELSE Answered(c, Response(200, [success |-> TRUE,
                                     machineId |-> c.req.params.machineId,
                                     recordCount |-> Len(c.rows),
                                     data |-> processedRows(c.rows)]))

\* GET /api/stats up to Promise.all: the five statements are carried out
StatsStart(ip, dbErr) ==
  LET r == Request("GET", "/api/stats", ip, EmptyBody, EmptyBody)
  IN /\ running
     /\ Len(answers) < MaxRequests
     /\ GlobalGate(r)
     /\ UNCHANGED running
     /\ IF ~GlobalAdmits(r) THEN GlobalRefuse /\ UNCHANGED <<calls, answers>>
        ELSE /\ \E machineStats \in OrderByMessageCountDesc(machineCounts(store)),
                   deviceTypes \in Arrangements({store[i].device_type : i \in DOMAIN store}) :
                  Called(Call(Len(answers) + 1, "stats", "all", r, dbErr,
                    [totalMessages |-> Len(store),
                     uniqueMachines |-> Cardinality({store[i].machine_id : i \in DOMAIN store} \ {Null}),
                     deviceTypes |-> deviceTypes,
                     recentActivity24h |-> Len(SelectSeq(store, LAMBDA row : Recent(row, now))),
                     lastMessage |-> -1,
                     topMachines |-> slice(machineStats, topMachinesShown)], <<>>))
             /\ UNCHANGED <<now, store, seq, systemMetrics, machineHits, admitted,
                            removed, startup, pending>>

\* .then(...) or .catch(...): the statistics with systemMetrics.lastMessage
\* as it is now, or the 500
StatsDone(c) ==
  /\ running
  /\ c.route = "stats"
  /\ IF c.err THEN Answered(c, databaseError)
     ELSE Answered(c, Response(200,
            [success |-> TRUE,
             statistics |-> [c.row EXCEPT !.lastMessage = systemMetrics.lastMessage]]))

\* DELETE /api/cleanup up to db.run(sql, ...): the DELETE is carried out
CleanupStart(ip, q, dbErr) ==
  LET r == Request("DELETE", "/api/cleanup", ip, EmptyBody, q)
      days == QueryDays(q)
      gone == SelectSeq(store, LAMBDA row : Expired(row, days, now))
  IN /\ running
     /\ Len(answers) < MaxRequests
     /\ GlobalGate(r)
     /\ UNCHANGED running
     /\ IF ~GlobalAdmits(r) THEN GlobalRefuse /\ UNCHANGED <<calls, answers>>
        ELSE /\ Called(Call(Len(answers) + 1, "cleanup", "run", r, dbErr,
                            [changes |-> IF dbErr THEN 0 ELSE Len(gone)], <<>>))
             /\ UNCHANGED <<now, seq, systemMetrics, machineHits, admitted, startup, pending>>
             /\ IF dbErr THEN UNCHANGED <<store, removed>>
                ELSE /\ store' = SelectSeq(store, LAMBDA row : ~Expired(row, days, now))
                     /\ removed' = removed \cup RowIds(gone)

\* its callback: the 500, or the number of rows that the DELETE removed
CleanupDone(c) ==
  /\ running
  /\ c.route = "cleanup"
  /\ IF c.err THEN Answered(c, databaseError)
     ELSE Answered(c, Response(200, [success |-> TRUE, deletedRecords |-> c.row.changes]))

\* the callback that PostInsert leaves for this request
InsertCall(r, dbErr, lastID) ==
  [req |-> r, info |-> extractMachineInfo(r.body), err |-> dbErr, lastID |-> lastID]

\* POST /api/machine-data up to db.run(insertSQL, ...), as a request in flight
PostStart(ip, body, dbErr) ==
  LET r == Request("POST", "/api/machine-data", ip, body, EmptyBody)
      p == InsertCall(r, dbErr, IF dbErr THEN 0 ELSE NextId(seq, store))
  IN /\ running
     /\ Len(answers) < MaxRequests
     /\ p \notin pending
     /\ PostInsert(ip, body, dbErr)
     /\ UNCHANGED running
     /\ IF p \in pending'
          THEN Called(Call(Len(answers) + 1, "post", "run", r, dbErr, [lastID |-> p.lastID], <<>>))
        ELSE UNCHANGED <<calls, answers>>

\* the insert callback of the request in flight
PostDone(c) ==
  /\ running
  /\ c.route = "post"
  /\ InsertCallback
  /\ pending \ pending' = {InsertCall(c.req, c.err, c.row.lastID)}
  /\ calls' = calls \ {c}
  /\ answers' = [answers EXCEPT ![c.id] = @ + 1]
  /\ UNCHANGED running

----------------------------------------------------------------------------
(* The service started on a table that an earlier run has filled, or on    *)
(* one in which the text of a JSON column has been damaged, with requests  *)
(* of every route in flight together                                       *)

\* the tables with the text of one JSON column of one row damaged
Damaged(table) ==
  {[table EXCEPT ![i][column] = notJSON] :
     i \in DOMAIN table, column \in {"raw_payload", "extracted_data", "metadata"}}

ServeBodies == {[machineId |-> "'A'", temp |-> Infinity], [temp |-> "42"]}

ServeTables ==
  LET tables == {t \in TablesOf({[machineId |-> "'A'", temp |-> "42"]}) : Len(t) <= MaxRequests}
  IN tables \cup UNION {Damaged(t) : t \in tables}

InitServing == \E table \in ServeTables : Restarted(table)

ListRequest == \E q \in {EmptyBody, [limit |-> "1"]}, dbErr \in BOOLEAN : ListStart("ip2", q, dbErr)

ListCountCallback == \E c \in calls, dbErr \in BOOLEAN : ListCounted(c, dbErr)

ListDataCallback == \E c \in calls : ListRead(c)

MachineRequest == \E machineId \in {"'A'", "'C'"}, dbErr \in BOOLEAN : MachineStart("ip2", machineId, EmptyBody, dbErr)

MachineCallback == \E c \in calls : MachineRead(c)

StatsRequest == \E dbErr \in BOOLEAN : StatsStart("ip2", dbErr)

StatsCallback == \E c \in calls : StatsDone(c)

CleanupRequest == \E dbErr \in BOOLEAN : CleanupStart("ip2", [days |-> "0"], dbErr)

CleanupCallback == \E c \in calls : CleanupDone(c)

PostRequest == \E body \in ServeBodies, dbErr \in BOOLEAN : PostStart("ip1", body, dbErr)

PostCallback == \E c \in calls : PostDone(c)

Callback ==
  \/ ListCountCallback
  \/ ListDataCallback
  \/ MachineCallback
  \/ StatsCallback
  \/ CleanupCallback
  \/ PostCallback

NextServe ==
  \/ ListRequest
  \/ ListCountCallback
  \/ ListDataCallback
  \/ MachineRequest
  \/ MachineCallback
  \/ StatsRequest
  \/ StatsCallback
  \/ CleanupRequest
  \/ CleanupCallback
  \/ PostRequest
  \/ PostCallback

SpecServe == InitServing /\ [][NextServe]_vars

\* the storage engine calls every callback it owes, as long as the process runs
SpecServeFair == SpecServe /\ WF_vars(Callback)

----------------------------------------------------------------------------
(* Properties of the field extractor (SpecExtract)                         *)

\* the request in req has been through extractMachineInfo
Extracted == info # NoInfo

\* C4 as stated: machineId is the value of the first of machineId,
\* machine_id, deviceId, device_id, id, serial, name that is present and
\* non-null, whatever that value is, and null exactly when there is none.
C4_FirstNonNullMachineId ==
  Extracted =>
    LET order == <<"machineId", "machine_id", "deviceId", "device_id", "id", "serial", "name">>
        present == {i \in 1..7 : Get(req.body, order[i]) \notin {Undefined, Null}}
    IN IF present = {} THEN info.machineId = Null
       ELSE info.machineId = req.body[order[CHOOSE i \in present : \A j \in present : i <= j]]

\* C4 amended: machineId is the value of the first of those keys whose
\* value is truthy (present and not null, false, 0 or the empty string),
\* and null exactly when no key holds a truthy value.
C4_FirstTruthyMachineId ==
  Extracted =>
    LET order == <<"machineId", "machine_id", "deviceId", "device_id", "id", "serial", "name">>
        usable == {i \in 1..7 : Get(req.body, order[i]) \notin {Undefined, Null, "false", "0", "''"}}
    IN IF usable = {} THEN info.machineId = Null
       ELSE info.machineId = req.body[order[CHOOSE i \in usable : \A j \in usable : i <= j]]

\* C4 witness: machineId "A" and machine_id "B" yield "A"
C4_Witness ==
  /\ Extracted
  /\ Get(req.body, "machineId") = "'A'"
  /\ Get(req.body, "machine_id") = "'B'"
  /\ info.machineId = "'A'"

\* C5 as stated: the timestamp comes from the first of timestamp, time,
\* datetime, created_at, recorded_at whose value is present and parses as a
\* valid date, and is null exactly when no key holds a value that parses.
C5_FirstParsingTimestamp ==
  Extracted =>
    LET order == <<"timestamp", "time", "datetime", "created_at", "recorded_at">>
        parsing == {i \in 1..5 : /\ Get(req.body, order[i]) \notin {Undefined, Null}
                                 /\ DateParses(req.body[order[i]])}
    IN IF parsing = {} THEN info.timestamp = Null
       ELSE info.timestamp = toISOString(req.body[order[CHOOSE i \in parsing : \A j \in parsing : i <= j]])

\* C5 amended: the timestamp comes from the first of those keys whose value
\* is truthy and parses as a valid date; a value that is falsy (null, false,
\* 0, the empty string) or does not parse is skipped; the result is null
\* exactly when no key holds a truthy value that parses.
C5_FirstTruthyParsingTimestamp ==
  Extracted =>
    LET order == <<"timestamp", "time", "datetime", "created_at", "recorded_at">>
        parsing == {i \in 1..5 : /\ Get(req.body, order[i]) \notin {Undefined, Null, "false", "0", "''"}
                                 /\ DateParses(req.body[order[i]])}
    IN IF parsing = {} THEN info.timestamp = Null
       ELSE info.timestamp = toISOString(req.body[order[CHOOSE i \in parsing : \A j \in parsing : i <= j]])

\* C5 witness: an unparseable timestamp is skipped and time is used
C5_Witness ==
  /\ Extracted
  /\ Get(req.body, "timestamp") = "'not-a-date'"
  /\ Get(req.body, "time") = "'2025-01-01T00:00:00Z'"
  /\ info.timestamp = "'2025-01-01T00:00:00.000Z'"

----------------------------------------------------------------------------
(* Properties of the admission gate (SpecGate)                             *)

\* C1: among the ingestion requests with one key, a request that reaches
\* the per-key limiter less than 10 seconds after an admitted one is
\* answered 429 with the fixed refusal, and one that arrives 10 seconds or
\* more after the last admitted one is admitted; so no two admissions of a
\* key are less than 10 seconds apart.
C1_PerKeyWindow ==
  [][(now' = now /\ machineHits' # machineHits) =>
       LET key == keyGenerator(req')
       IN IF key \in DOMAIN admitted /\ now < admitted[key] + 10
            THEN res' = Response(429, machineLimitMessage) /\ admitted' = admitted
          ELSE res'.status # 429 /\ admitted'[key] = now]_vars

\* C1 witness: machine A stored at 0 and again at 10 seconds
C1_Witness ==
  /\ now = 10
  /\ res.status = 201
  /\ Len(store) = 2
  /\ store[1].machine_id = "'A'" /\ store[1].received_at = sqlDatetime(0)
  /\ store[2].machine_id = "'A'" /\ store[2].received_at = sqlDatetime(10)

\* C2: when the per-key limiter's count for the request's key exceeds 1,
\* the table, the id sequence and the metrics cache keep their values and
\* the response is 429 with the fixed refusal and retryAfter "10 seconds".
C2_RejectionChangesNothing ==
  [][(/\ now' = now
      /\ machineHits' # machineHits
      /\ machineHits'[keyGenerator(req')].totalHits > 1) =>
       /\ store' = store
       /\ seq' = seq
       /\ systemMetrics' = systemMetrics
       /\ res'.status = 429
       /\ res'.body = machineLimitMessage
       /\ res'.body.retryAfter = "10 seconds"]_vars

\* C2 witness: a refusal by the per-key limiter with a record in the table
C2_Witness ==
  /\ res = Response(429, machineLimitMessage)
  /\ Len(store) = 1
  /\ systemMetrics.totalMessages = 1
  /\ systemMetrics.connectedDevices = {"'A'"}

\* C3 as stated: the requests to /api/ that the global limiter admitted in
\* the last globalWindow seconds, over all callers together, never number
\* more than globalMax.
C3_GlobalWindow == Len(apiLog) <= globalMax

----------------------------------------------------------------------------
(* Properties of the table and the handlers (Spec)                         *)

\* C7 as stated: in every stored record, the key whose value became the
\* record's machineId and the key whose value became its deviceType are
\* not in extractedData.
C7_ConsumedFieldsRemoved ==
  \A n \in DOMAIN store :
    LET raw == JSONparse(store[n].raw_payload)
        data == JSONparse(store[n].extracted_data)
        ids == <<"machineId", "machine_id", "deviceId", "device_id", "id", "serial", "name">>
        types == <<"deviceType", "device_type", "type", "category">>
        idUsed == {i \in 1..7 : Truthy(Get(raw, ids[i]))}
        typeUsed == {i \in 1..4 : Truthy(Get(raw, types[i]))}
    IN /\ idUsed # {} => ids[CHOOSE i \in idUsed : \A j \in idUsed : i <= j] \notin DOMAIN data
       /\ typeUsed # {} => types[CHOOSE i \in typeUsed : \A j \in typeUsed : i <= j] \notin DOMAIN data

\* C8: ids are strictly increasing in insertion order, every id handed out
\* so far belongs to exactly one record, stored or deleted, and no stored
\* record has the id of a deleted one.
C8_IdsNeverReused ==
  /\ \A i, j \in DOMAIN store : i < j => store[i].id < store[j].id
  /\ RowIds(store) \cap removed = {}
  /\ RowIds(store) \cup removed = 1..seq
  /\ Len(store) + Cardinality(removed) = seq

\* C8 witness: a record inserted after a sweep deleted an earlier one
C8_Witness ==
  /\ removed # {}
  /\ store # <<>>
  /\ \A d \in removed : store[Len(store)].id > d

C10_ListMatchesFilters ==
  (req.method = "GET" /\ res.status = 200) =>
    LET q == req.query
        receivedAt(row) == row.received_at.date * DaySeconds + row.received_at.time
        matches(row) ==
          /\ "machineId" \in DOMAIN q => row.machine_id = q.machineId
          /\ "deviceType" \in DOMAIN q => row.device_type = q.deviceType
          /\ "from" \in DOMAIN q => receivedAt(row) >= DateSeconds(q.from)
          /\ "to" \in DOMAIN q => receivedAt(row) <= DateSeconds(q.to)
        expected == {i \in DOMAIN store : matches(store[i])}
    IN /\ res.body.pagination.total = Cardinality(expected)
       /\ {res.body.data[i].id : i \in DOMAIN res.body.data} = {store[i].id : i \in expected}

----------------------------------------------------------------------------
(* Properties of the queries (SpecQuery)                                   *)

\* the receivedAt of a record, in seconds
receivedAt(row) == row.received_at.date * DaySeconds + row.received_at.time

\* record a comes before record b in the order that the list and the
\* per-machine query promise: later receivedAt first, then higher id first
Precedes(a, b) ==
  \/ receivedAt(a) > receivedAt(b)
  \/ receivedAt(a) = receivedAt(b) /\ a.id > b.id

\* the ids of the records in a response
DataIds(response) == {response.body.data[i].id : i \in DOMAIN response.body.data}

\* C11 as stated: the records of a list response and of a per-machine
\* response are in descending order of receivedAt, and records with equal
\* receivedAt are in descending order of id.
C11_OrderedByReceivedAtThenId ==
  (req.method = "GET" /\ res.status = 200) =>
    \A i, j \in DOMAIN res.body.data : i < j => Precedes(res.body.data[i], res.body.data[j])

\* C12 as stated: when the list is asked for offset 0, limit k and then,
\* with the table unchanged and the same filter, for offset k, limit k, the
\* two pages share no record, every record of the first page precedes
\* every record of the second, together they are the first min(2k, N) of
\* the N matching records, and each response has hasMore = (offset + limit
\* < N).
C12_PagesPartitionTheResult ==
  [][(/\ req.method = "GET" /\ req.path = "/api/machine-data" /\ res.status = 200
      /\ req'.method = "GET" /\ req'.path = "/api/machine-data" /\ res'.status = 200
      /\ globalHits' # globalHits
      /\ store' = store
      /\ Get(req.query, "machineId") = Get(req'.query, "machineId")
      /\ req.query.offset = "0"
      /\ req'.query.offset = req.query.limit
      /\ req'.query.limit = req.query.limit) =>
       LET k == parseInt(req.query.limit)
           matching == {i \in DOMAIN store :
                          "machineId" \in DOMAIN req.query => store[i].machine_id = req.query.machineId}
           N == Cardinality(matching)
           first == {i \in matching :
                       Cardinality({j \in matching : Precedes(store[j], store[i])}) < 2 * k}
       IN /\ DataIds(res) \cap DataIds(res') = {}
          /\ \A i \in DOMAIN res.body.data, j \in DOMAIN res'.body.data :
               Precedes(res.body.data[i], res'.body.data[j])
          /\ DataIds(res) \cup DataIds(res') = {store[i].id : i \in first}
          /\ res.body.pagination.hasMore = (k < N)
          /\ res'.body.pagination.hasMore = (k + k < N)]_vars

\* C13 as stated: the per-machine query answers 404 exactly when no stored
\* record has the requested machine id, and otherwise 200 with recordCount
\* equal to the number of records in the response, whatever the limit.
C13_NotFoundIffNoRecord ==
  (req.path = "/api/machine-data/:machineId" /\ res.status \in {200, 404}) =>
    LET stored == \E i \in DOMAIN store : store[i].machine_id = req.params.machineId
    IN /\ res.status = 404 <=> ~stored
       /\ res.status = 200 => res.body.recordCount = Len(res.body.data)

----------------------------------------------------------------------------
(* Properties of the statistics (SpecStats)                                *)

RECURSIVE SumOfCounts(_)
SumOfCounts(groups) ==
  IF groups = <<>> THEN 0 ELSE groups[1].message_count + SumOfCounts(Tail(groups))

\* the stored records that have a machine id
WithMachineId == {i \in DOMAIN store : store[i].machine_id # Null}

\* the number of stored records of machine m
RecordsOf(m) == Cardinality({i \in DOMAIN store : store[i].machine_id = m})

\* a statistics response is in res
StatsAnswered == req.path = "/api/stats" /\ res.status = 200

\* C14 as stated: in a statistics response no per-machine entry has a null
\* machine id, uniqueMachines is the number of distinct non-null machine
\* ids stored, and the per-machine counts returned sum to the number of
\* stored records with a non-null machine id, however many machines there
\* are.
C14_CountsSumToRecordsWithId ==
  StatsAnswered =>
    LET top == res.body.statistics.topMachines
    IN /\ \A i \in DOMAIN top : top[i].machine_id # Null
       /\ res.body.statistics.uniqueMachines = Cardinality({store[i].machine_id : i \in WithMachineId})
       /\ SumOfCounts(top) = Cardinality(WithMachineId)

\* C14 amended: no per-machine entry has a null machine id; uniqueMachines
\* is the number of distinct non-null machine ids stored; the entries are
\* those of the topMachinesShown machines with the most records (of all
\* machines when there are no more than that), one entry per machine, each
\* with that machine's number of records, in descending order of count; so
\* the counts sum to the number of records with a machine id when there are
\* at most topMachinesShown distinct machines.
C14_CountsOfTopMachines ==
  StatsAnswered =>
    LET top == res.body.statistics.topMachines
        machines == {store[i].machine_id : i \in WithMachineId}
        shown == {top[i].machine_id : i \in DOMAIN top}
    IN /\ \A i \in DOMAIN top : top[i].machine_id # Null
       /\ res.body.statistics.uniqueMachines = Cardinality(machines)
       /\ Len(top) = (IF Cardinality(machines) < topMachinesShown
                        THEN Cardinality(machines) ELSE topMachinesShown)
       /\ Cardinality(shown) = Len(top)
       /\ shown \subseteq machines
       /\ \A i \in DOMAIN top : top[i].message_count = RecordsOf(top[i].machine_id)
       /\ \A i, j \in DOMAIN top : i < j => top[i].message_count >= top[j].message_count
       /\ \A m \in machines \ shown : \A i \in DOMAIN top : RecordsOf(m) <= top[i].message_count
       /\ Cardinality(machines) <= topMachinesShown => SumOfCounts(top) = Cardinality(WithMachineId)

\* C14 witness: statistics of a table with a record without machine id and
\* two records of one machine, all machines shown
C14_Witness ==
  /\ StatsAnswered
  /\ \E i \in DOMAIN store : store[i].machine_id = Null
  /\ Len(res.body.statistics.topMachines) = 1
  /\ res.body.statistics.topMachines[1].message_count = 2
  /\ res.body.statistics.uniqueMachines = 1
  /\ res.body.statistics.totalMessages = 3

----------------------------------------------------------------------------
(* Properties of the retention sweep (SpecRetention)                       *)

\* C15: a sweep that the storage carries out removes exactly the records
\* whose receivedAt is more than retentionDays days before now (30 when the
\* request names none), leaves every other record in place and unchanged,
\* and answers with success and the number of records it removed, which is
\* 0 when no record is old enough.
C15_SweepRemovesExactlyTheOld ==
  [][(req'.method = "DELETE" /\ now' = now /\ globalHits' # globalHits /\ res'.status = 200) =>
       LET retentionDays == CASE "days" \notin DOMAIN req'.query -> 30
                              [] req'.query.days = "0" -> 0
                              [] req'.query.days = "1" -> 1
           old(row) == receivedAt(row) < now - retentionDays * 24 * 60 * 60
       IN /\ store' = SelectSeq(store, LAMBDA row : ~old(row))
          /\ res'.body.success = TRUE
          /\ res'.body.deletedRecords = Len(SelectSeq(store, old))
          /\ res'.body.deletedRecords = Len(store) - Len(store')]_vars

\* C15 witness: a sweep with the default of 30 days removed the record
\* received 40 days earlier and kept the one received since
C15_Witness ==
  /\ req.method = "DELETE"
  /\ req.query = EmptyBody
  /\ res.status = 200
  /\ res.body.deletedRecords = 1
  /\ removed = {1}
  /\ Len(store) = 1
  /\ now - receivedAt(store[1]) < 30 * DaySeconds

----------------------------------------------------------------------------
(* Properties of the metrics cache (SpecAsync)                             *)

\* a step in which the callback of an INSERT answers 201
InsertSucceeds == pending' # pending /\ pending' \subseteq pending /\ res'.status = 201

\* C16 as stated: the metrics change in the callback of a successful
\* insert and in no other step after startup (the two startup callbacks
\* set them first); that callback adds one to totalMessages, adds the
\* record's machine id to connectedDevices exactly when it is not null, and
\* sets lastMessage to the receivedAt of the record just inserted.
C16_InsertAloneUpdatesMetrics ==
  [][/\ (systemMetrics' # systemMetrics /\ startup' = startup) => InsertSucceeds
     /\ InsertSucceeds =>
          /\ systemMetrics'.totalMessages = systemMetrics.totalMessages + 1
          /\ systemMetrics'.connectedDevices =
               IF info'.machineId # Null
                 THEN systemMetrics.connectedDevices \cup {info'.machineId}
               ELSE systemMetrics.connectedDevices
          /\ \A i \in DOMAIN store' :
               store'[i].id = res'.body.id => systemMetrics'.lastMessage = receivedAt(store'[i])]_vars

\* both startup callbacks have set their part of the metrics
StartupDone == startup.count = "done" /\ startup.devices = "done"

\* C17 as stated: once both startup callbacks have run, no step lowers
\* totalMessages or takes a member from connectedDevices, a sweep leaves
\* the metrics as they are, and, with no insert callback outstanding,
\* totalMessages is at least the number of records in the table.
C17_CacheNeverBelowStore ==
  [][/\ (StartupDone /\ StartupDone') =>
          /\ systemMetrics'.totalMessages >= systemMetrics.totalMessages
          /\ systemMetrics.connectedDevices \subseteq systemMetrics'.connectedDevices
     /\ (req'.method = "DELETE" /\ now' = now /\ globalHits' # globalHits) =>
          systemMetrics' = systemMetrics
     /\ (StartupDone' /\ pending' = {}) => systemMetrics'.totalMessages >= Len(store')]_vars

----------------------------------------------------------------------------
(* Properties of the strict legacy service (SpecStrict)                    *)

\* a step in which a POST gets past both limiters
ReachesValidation ==
  /\ now' = now
  /\ req'.method = "POST"
  /\ globalHits' # globalHits
  /\ globalHits'[req'.ip].totalHits <= globalMax
  /\ machineHits' # machineHits
  /\ res'.status # 429

\* C18 as stated: a payload is accepted exactly when machineId, timestamp
\* and data are all present, data is a JSON object and timestamp parses as
\* a date; every other payload is answered 400, nothing is inserted and
\* the metrics keep their values.
C18_AcceptsIffPresentAndWellFormed ==
  [][ReachesValidation =>
       LET body == req'.body
           wellFormed == /\ {"machineId", "timestamp", "data"} \subseteq DOMAIN body
                         /\ body.data = "{}"
                         /\ DateParses(body.timestamp)
       IN IF wellFormed THEN res'.status # 400
          ELSE res'.status = 400 /\ store' = store /\ systemMetrics' = systemMetrics]_vars

\* C18 amended: a payload that both limiters let through is accepted (and
\* stored with 201 unless the storage fails) exactly when machineId,
\* timestamp and data are all truthy (present and not null, false, 0 or the
\* empty string), data is an object or an array, and timestamp parses as a
\* date; every other such payload is answered 400, nothing is inserted and
\* the metrics keep their values.
C18_AcceptsIffTruthyAndWellFormed ==
  [][ReachesValidation =>
       LET body == req'.body
           usable(k) == Get(body, k) \notin {Undefined, Null, "false", "0", "''"}
           wellFormed == /\ usable("machineId") /\ usable("timestamp") /\ usable("data")
                         /\ body.data \in {"{}", "[]"}
                         /\ body.timestamp \in {"true", "42", "'2025-01-01T00:00:00Z'"}
       IN IF wellFormed
            THEN IF err' THEN res'.status = 500 /\ store' = store /\ systemMetrics' = systemMetrics
                 ELSE /\ res'.status = 201
                      /\ Len(store') = Len(store) + 1
                      /\ store'[Len(store')].id = res'.body.id
                      /\ JSONparse(store'[Len(store')].data) = body.data
          ELSE res'.status = 400 /\ store' = store /\ systemMetrics' = systemMetrics]_vars

\* C18 witness: a payload with all three fields was stored, within ten
\* seconds of a payload without usable machineId that reached the validation
C18_Witness ==
  /\ res.status = 201
  /\ req.body = [machineId |-> "'A'", timestamp |-> "'2025-01-01T00:00:00Z'", data |-> "{}"]
  /\ Len(store) = 1
  /\ store[1].machine_id = "'A'"
  /\ store[1].timestamp = "'2025-01-01T00:00:00.000Z'"
  /\ systemMetrics.connectedDevices = {"'A'"}
  /\ "ip1" \in DOMAIN admitted

----------------------------------------------------------------------------
(* Properties of the ingestion errors (Spec)                               *)

\* a step in which a POST with an empty body arrives
EmptyPost ==
  /\ now' = now
  /\ globalHits' # globalHits
  /\ req'.method = "POST"
  /\ DOMAIN req'.body = {}

\* C19 as stated: a POST with an empty body is answered 400 with a body of
\* success false and an error text, no record is inserted and the metrics
\* keep their values.
C19_EmptyBodyIs400 ==
  [][EmptyPost =>
       /\ res'.status = 400
       /\ res'.body.success = FALSE
       /\ "error" \in DOMAIN res'.body
       /\ store' = store
       /\ systemMetrics' = systemMetrics]_vars

\* C19 amended: a POST with an empty body that both limiters admit is
\* answered 400 with the body {success: false, error: "Empty payload
\* received. Send some data."}; one that a limiter refuses is answered 429
\* with that limiter's refusal; in both cases no record is inserted and the
\* metrics keep their values.
C19_AdmittedEmptyBodyIs400 ==
  [][EmptyPost =>
       /\ IF /\ globalHits'[req'.ip].totalHits <= globalMax
             /\ machineHits' # machineHits
             /\ machineHits'[req'.ip].totalHits <= 1
            THEN res' = Response(400, [success |-> FALSE,
                                       error |-> "Empty payload received. Send some data."])
          ELSE res'.status = 429 /\ res'.body.success = FALSE /\ "error" \in DOMAIN res'.body
       /\ store' = store
       /\ seq' = seq
       /\ systemMetrics' = systemMetrics]_vars

\* C19 witness: an empty body answered 400 while a record is stored
C19_Witness ==
  /\ req.method = "POST"
  /\ req.body = EmptyBody
  /\ res.status = 400
  /\ res.body.success = FALSE
  /\ Len(store) = 1
  /\ systemMetrics.totalMessages = 1

\* C20: when the INSERT of an admitted, valid POST fails, the response is
\* 500 with the generic text "Database error occurred", the table and the
\* id sequence are as before (nothing was written, then or by a retry) and
\* totalMessages, connectedDevices and lastMessage keep their values.
C20_FailedInsertChangesNothing ==
  [][(now' = now /\ globalHits' # globalHits /\ req'.method = "POST" /\ err') =>
       /\ res' = Response(500, [success |-> FALSE, error |-> "Database error occurred"])
       /\ store' = store
       /\ seq' = seq
       /\ systemMetrics' = systemMetrics]_vars

\* C20 witness: a failed insert after a stored one, which is still the
\* only record
C20_Witness ==
  /\ req.method = "POST"
  /\ err
  /\ res.status = 500
  /\ DOMAIN req.body # {}
  /\ Len(store) = 1
  /\ systemMetrics.totalMessages = 1
  /\ seq = 1

----------------------------------------------------------------------------
(* Properties of requests in flight (SpecServe, SpecServeFair), of the     *)
(* limiter key (SpecExtract) and of the startup queries (SpecAsync)        *)

\* C21: when the callback of a list or per-machine read is called with
\* rows of which a JSON column cannot be deserialized, the request is
\* answered, once, with status 500 and the error envelope.
C21_UnreadableRowIs500 ==
  [][\A c \in calls :
       (c.step = "data" /\ ~c.err /\ mapThrows(c.rows) /\ c \notin calls') =>
         /\ res'.status = 500
         /\ res'.body.success = FALSE
         /\ answers'[c.id] = answers[c.id] + 1]_vars

\* C22: no step alters a field of a record that stays in the table, the
\* record that an insert adds holds a raw_payload that parses to the
\* payload of the request, and a read returns the parsed raw_payload of
\* each row it was given; so a record reads back as it was submitted.
C22_RawPayloadImmutable ==
  [][/\ \A i \in DOMAIN store : store[i].id \in RowIds(store') => store[i] \in Range(store')
     /\ \A j \in DOMAIN store' :
          store'[j].id \notin RowIds(store) =>
            /\ ~SyntaxError(store'[j].raw_payload)
            /\ JSONparse(store'[j].raw_payload) = req'.body
     /\ \A c \in calls \ calls' :
          (c.step = "data" /\ answers'[c.id] # answers[c.id] /\ res'.status = 200) =>
            \A k \in DOMAIN c.rows :
              res'.body.data[k].raw_payload = JSONparse(c.rows[k].raw_payload)]_vars

\* C23: the key of the per-key limiter for a request is the machine id
\* that extraction derives from its payload when that id is not null, and
\* the caller's address when it is null.
C23_KeyIsExtractedMachineId ==
  Extracted => keyGenerator(req) = (IF info.machineId # Null THEN info.machineId ELSE req.ip)

\* C24: once both startup callbacks and every insert callback have run,
\* and no sweep has removed a record, totalMessages is the number of
\* records and connectedDevices is the set of their machine ids.
C24_NoMetricsUpdateLost ==
  (StartupDone /\ pending = {} /\ removed = {}) =>
    /\ systemMetrics.totalMessages = Len(store)
    /\ systemMetrics.connectedDevices = {store[i].machine_id : i \in DOMAIN store} \ {Null}

\* C25: every request that reaches a handler is never answered twice and
\* is eventually answered once.
C25_ExactlyOneResponse ==
  \A i \in 1..MaxRequests :
    /\ [](Len(answers) >= i => answers[i] <= 1)
    /\ (Len(answers) >= i) ~> (Len(answers) >= i /\ answers[i] = 1)

\* C26: the count that a list response carries is the number of records
\* matching the filters when the page of data is read, and hasMore is
\* computed from that count.
C26_TotalIsCountAtDataRead ==
  [][/\ \A c \in calls' \ calls :
          (c.route = "list" /\ c.step = "data" /\ ~c.err) =>
            c.row.total = Len(Matching(store, c.req.query))
     /\ \A c \in calls \ calls' :
          (c.route = "list" /\ c.step = "data" /\ answers'[c.id] # answers[c.id] /\ res'.status = 200) =>
            /\ res'.body.pagination.total = c.row.total
            /\ res'.body.pagination.hasMore =
                 (res'.body.pagination.offset + res'.body.pagination.limit < c.row.total)]_vars

====
